---- MODULE Spec2Model ----
(***************************************************************************)
(* Budget tracker backend: the ledger of transactions and the account      *)
(* balances the request handlers keep next to it.                          *)
(*                                                                         *)
(* The committed database is the four tables accounts, categories,         *)
(* sub_categories and transactions; a row's id is its position in its      *)
(* table (autoincrement primary key, rows are never physically removed).   *)
(* Every request handler is an operator from the committed database and    *)
(* the request to the session state it ends with and the HTTP status; the  *)
(* action of the handler commits the session state exactly when the        *)
(* handler reached its db.commit() (get_db closes the session otherwise,   *)
(* which discards everything the session changed).  What the client gets   *)
(* back is the status, and for an import the counts, of that result.       *)
(*                                                                         *)
(* The request payloads carry the fields the routers read                  *)
(* (from_account_id, to_account_id, optional category_id and               *)
(* sub_category_id); schemas.py still declares the older account_id.       *)
(* Amounts and balances are                                                *)
(* integers.  Python's None is NoId for an id, NoAmount for an amount,     *)
(* NoDate for a date and NoValue for a string or an enum member.           *)
(***************************************************************************)
EXTENDS Integers, Sequences, FiniteSets, TLC

VARIABLES accounts, categories, sub_categories, transactions, sessions

vars == <<accounts, categories, sub_categories, transactions, sessions>>

----------------------------------------------------------------------------
(* Bounds of the model *)

MaxAccounts == 4
MaxCategories == 5
MaxSubCategories == 5
MaxTransactions == 3
MaxAmount == 2
MaxRows == 2
MaxSessions == 2
MaxDate == 3

(* None *)
NoId == 0
NoAmount == 0
NoDate == 0
NoBalance == -1
NoValue == "None"

Users == {1, 2}
Amounts == 1..MaxAmount
AccountNames == {"wallet", "Bank", "cash"}
CategoryNames == {"food", "Rent", "fun"}
SubCategoryNames == {"meal", "Lease"}

(* str.lower() on the names the model feeds in *)
Lower(s) ==
    CASE s = "Bank" -> "bank"
      [] s = "Cash" -> "cash"
      [] s = "Food" -> "food"
      [] s = "Rent" -> "rent"
      [] s = "Fun" -> "fun"
      [] s = "Lease" -> "lease"
      [] s = "Income" -> "income"
      [] OTHER -> s

----------------------------------------------------------------------------
(* models.TransactionType: the members of the enum, their values, and what *)
(* str() gives for a member of an Enum that mixes in str.                  *)

INCOME == "INCOME"
EXPENSE == "EXPENSE"
TRANSFER == "TRANSFER"
TransactionType == {INCOME, EXPENSE, TRANSFER}

EnumValue(m) ==
    CASE m = INCOME -> "income"
      [] m = EXPENSE -> "expense"
      [] m = TRANSFER -> "transfer"

(* str(x): a member prints as ClassName.MEMBER, a plain str as itself *)
PyStr(x) == IF x \in TransactionType THEN "TransactionType." \o x ELSE x

(* Column(Enum(TransactionType)): a member, or a str equal to a member's   *)
(* value (the members hash and compare as their values), is stored as the  *)
(* member and read back as the member.                                     *)
EnumColumn(x) ==
    IF x \in TransactionType THEN x
    ELSE CHOOSE m \in TransactionType : EnumValue(m) = x

----------------------------------------------------------------------------
(* The database *)

DB == [accounts |-> accounts, categories |-> categories,
       sub_categories |-> sub_categories, transactions |-> transactions]

Ids(table) == 1..Len(table)

(* x or 0 *)
OrZero(x) == x

(* select(Account).where(id == .., user_id == .., is_active == True).first() *)
FindAccount(db, id, user) ==
    IF id \in Ids(db.accounts) /\ db.accounts[id].user_id = user
       /\ db.accounts[id].is_active
    THEN id ELSE NoId

FindCategory(db, id, user) ==
    IF id \in Ids(db.categories) /\ db.categories[id].user_id = user
       /\ db.categories[id].is_active
    THEN id ELSE NoId

FindSubCategory(db, id, user) ==
    IF id \in Ids(db.sub_categories) /\ db.sub_categories[id].user_id = user
       /\ db.sub_categories[id].is_active
    THEN id ELSE NoId

(* a lookup that does not ask for is_active *)
FindTransaction_any_flag(db, id, user) ==
    IF id \in Ids(db.transactions) /\ db.transactions[id].user_id = user
    THEN id ELSE NoId

FindTransaction(db, id, user) ==
    IF id \in Ids(db.transactions) /\ db.transactions[id].user_id = user
       /\ db.transactions[id].is_active
    THEN id ELSE NoId

(* account.balance = value, on the session's copy of the row *)
SetBalance(db, id, value) ==
    [db EXCEPT !.accounts[id].balance = value]

(* the result of a handler: the session it leaves and its status code *)
Result(db, status) == [db |-> db, status |-> status]

----------------------------------------------------------------------------
(* routers/account.py *)

AccountData == [name : AccountNames, balance : {0}]

add_account(db, current_user, account_data) ==
    LET existing == {i \in Ids(db.accounts) :
                        /\ db.accounts[i].name = Lower(account_data.name)
                        /\ db.accounts[i].user_id = current_user
                        /\ db.accounts[i].is_active}
    IN  IF existing # {} THEN Result(db, 400)
        ELSE Result([db EXCEPT !.accounts = Append(@,
                        [name |-> Lower(account_data.name),
                         balance |-> account_data.balance,
                         is_active |-> TRUE,
                         user_id |-> current_user])], 200)

AccountUpdate == [name : AccountNames \cup {NoValue},
                  balance : {NoBalance, 0}]

edit_account(db, current_user, account_id, account_data) ==
    LET account == FindAccount(db, account_id, current_user)
        renamed == account_data.name # NoValue
                   /\ Lower(account_data.name) # db.accounts[account].name
        existing == {i \in Ids(db.accounts) :
                        /\ db.accounts[i].name = Lower(account_data.name)
                        /\ db.accounts[i].user_id = current_user
                        /\ db.accounts[i].is_active
                        /\ i # account_id}
    IN  IF account = NoId THEN Result(db, 404)
        ELSE IF renamed /\ existing # {} THEN Result(db, 400)
        ELSE Result([db EXCEPT
                !.accounts[account].name =
                    IF account_data.name # NoValue
                    THEN Lower(account_data.name) ELSE @,
                !.accounts[account].balance =
                    IF account_data.balance # NoBalance
                    THEN account_data.balance ELSE @], 200)

(* The query for active transactions names Transaction.account_id, which   *)
(* the model class does not have: the handler raises before it changes     *)
(* anything.                                                               *)
delete_account(db, current_user, account_id) ==
    LET account == FindAccount(db, account_id, current_user)
    IN  IF account = NoId THEN Result(db, 404) ELSE Result(db, 500)

----------------------------------------------------------------------------
(* routers/transaction.py: add_transaction *)

NewTransaction(amount, type, date, notes, category_id, sub_category_id, from_account_id, to_account_id, user_id) ==
    [amount |-> amount, type |-> EnumColumn(type), date |-> date,
     notes |-> notes, category_id |-> category_id,
     sub_category_id |-> sub_category_id,
     from_account_id |-> from_account_id, to_account_id |-> to_account_id,
     user_id |-> user_id, is_active |-> TRUE]

(* add_transaction_check without the test that a transfer's two accounts *)
(* differ and without the test that an income or expense has no to-account *)
add_transaction_check_lax(db, current_user, transaction_data) ==
    LET account == FindAccount(db, transaction_data.from_account_id, current_user)
        to_account == FindAccount(db, transaction_data.to_account_id, current_user)
        category == FindCategory(db, transaction_data.category_id, current_user)
        sub_category == FindSubCategory(db, transaction_data.sub_category_id, current_user)
    IN  IF account = NoId THEN 404
        ELSE IF transaction_data.type = TRANSFER
        THEN IF transaction_data.to_account_id = NoId THEN 400
             ELSE IF to_account = NoId THEN 404
             ELSE IF transaction_data.category_id # NoId
                     \/ transaction_data.sub_category_id # NoId THEN 400
             ELSE 0
        ELSE IF transaction_data.category_id # NoId /\ category = NoId THEN 404
             ELSE IF transaction_data.sub_category_id # NoId /\ sub_category = NoId THEN 404
             ELSE IF transaction_data.sub_category_id # NoId
                     /\ transaction_data.category_id # NoId
                     /\ db.sub_categories[sub_category].category_id
                            # transaction_data.category_id THEN 400
             ELSE 0

(* lines 29-126: 0 when the request passes every check, else the status *)
add_transaction_check(db, current_user, transaction_data) ==
    LET account == FindAccount(db, transaction_data.from_account_id, current_user)
        to_account == FindAccount(db, transaction_data.to_account_id, current_user)
        category == FindCategory(db, transaction_data.category_id, current_user)
        sub_category == FindSubCategory(db, transaction_data.sub_category_id, current_user)
    IN  IF account = NoId THEN 404
        ELSE IF transaction_data.type = TRANSFER
        THEN IF transaction_data.to_account_id = NoId THEN 400
             ELSE IF to_account = NoId THEN 404
             ELSE IF transaction_data.from_account_id = transaction_data.to_account_id THEN 400
             ELSE IF transaction_data.category_id # NoId
                     \/ transaction_data.sub_category_id # NoId THEN 400
             ELSE 0
        ELSE IF transaction_data.to_account_id # NoId THEN 400
             ELSE IF transaction_data.category_id # NoId /\ category = NoId THEN 404
             ELSE IF transaction_data.sub_category_id # NoId /\ sub_category = NoId THEN 404
             ELSE IF transaction_data.sub_category_id # NoId
                     /\ transaction_data.category_id # NoId
                     /\ db.sub_categories[sub_category].category_id
                            # transaction_data.category_id THEN 400
             ELSE 0

(* add_transaction_effect with the sign of an expense slipped *)
add_transaction_effect_expense_added(db, transaction_data) ==
    LET account == transaction_data.from_account_id
        to_account == transaction_data.to_account_id
        amount == transaction_data.amount
    IN  IF transaction_data.type = TRANSFER
        THEN LET d1 == SetBalance(db, account,
                            OrZero(db.accounts[account].balance) - amount)
             IN  SetBalance(d1, to_account,
                            OrZero(d1.accounts[to_account].balance) + amount)
        ELSE SetBalance(db, account, OrZero(db.accounts[account].balance) + amount)

(* add_transaction_effect with the credit of a transfer's to-account lost *)
add_transaction_effect_no_credit(db, transaction_data) ==
    LET account == transaction_data.from_account_id
        amount == transaction_data.amount
    IN  IF transaction_data.type = INCOME
        THEN SetBalance(db, account, OrZero(db.accounts[account].balance) + amount)
        ELSE SetBalance(db, account, OrZero(db.accounts[account].balance) - amount)

(* lines 143-151: the balance side effect of the new transaction *)
add_transaction_effect(db, transaction_data) ==
    LET account == transaction_data.from_account_id
        to_account == transaction_data.to_account_id
        amount == transaction_data.amount
    IN  IF transaction_data.type = INCOME
        THEN SetBalance(db, account, OrZero(db.accounts[account].balance) + amount)
        ELSE IF transaction_data.type = EXPENSE
        THEN SetBalance(db, account, OrZero(db.accounts[account].balance) - amount)
        ELSE IF transaction_data.type = TRANSFER
        THEN LET d1 == SetBalance(db, account,
                            OrZero(db.accounts[account].balance) - amount)
             IN  SetBalance(d1, to_account,
                            OrZero(d1.accounts[to_account].balance) + amount)
        ELSE db

add_transaction(db, current_user, transaction_data) ==
    LET failed == add_transaction_check(db, current_user, transaction_data)
        db_transaction == NewTransaction(
            transaction_data.amount, transaction_data.type,
            transaction_data.date, transaction_data.notes,
            transaction_data.category_id, transaction_data.sub_category_id,
            transaction_data.from_account_id, transaction_data.to_account_id,
            current_user)
        added == [db EXCEPT !.transactions = Append(@, db_transaction)]
    IN  IF failed # 0 THEN Result(db, failed)
        ELSE Result(add_transaction_effect(added, transaction_data), 200)

----------------------------------------------------------------------------
(* routers/transaction.py: delete_transaction *)

(* lines 404-430 (and 270-296 of edit_transaction): reverse the effect of  *)
(* the stored transaction on the accounts that are still there             *)
reverse_effect(db, current_user, transaction) ==
    LET account == FindAccount(db, transaction.from_account_id, current_user)
        to_account == FindAccount(db, transaction.to_account_id, current_user)
        amount == transaction.amount
    IN  IF account = NoId THEN db
        ELSE IF PyStr(transaction.type) = "income"
        THEN SetBalance(db, account, OrZero(db.accounts[account].balance) - amount)
        ELSE IF PyStr(transaction.type) = "expense"
        THEN SetBalance(db, account, OrZero(db.accounts[account].balance) + amount)
        ELSE IF PyStr(transaction.type) = "transfer"
        THEN LET d1 == SetBalance(db, account,
                            OrZero(db.accounts[account].balance) + amount)
             IN  IF transaction.to_account_id # NoId /\ to_account # NoId
                 THEN SetBalance(d1, to_account,
                            OrZero(d1.accounts[to_account].balance) - amount)
                 ELSE d1
        ELSE db

(* a delete that takes the row out of the table *)
delete_transaction_purge(db, current_user, transaction_id) ==
    LET transaction == FindTransaction(db, transaction_id, current_user)
        reversed == reverse_effect(db, current_user, db.transactions[transaction])
    IN  IF transaction = NoId THEN Result(db, 404)
        ELSE Result([reversed EXCEPT
                        !.transactions =
                            SubSeq(@, 1, transaction - 1)
                            \o SubSeq(@, transaction + 1, Len(@))], 200)

(* a delete that looks the row up whatever its flag and flips the flag *)
delete_transaction_toggle(db, current_user, transaction_id) ==
    IF transaction_id \in Ids(db.transactions)
       /\ db.transactions[transaction_id].user_id = current_user
    THEN Result([db EXCEPT !.transactions[transaction_id].is_active = ~@], 200)
    ELSE Result(db, 404)

delete_transaction(db, current_user, transaction_id) ==
    LET transaction == FindTransaction(db, transaction_id, current_user)
        reversed == reverse_effect(db, current_user, db.transactions[transaction])
    IN  IF transaction = NoId THEN Result(db, 404)
        ELSE Result([reversed EXCEPT
                        !.transactions[transaction].is_active = FALSE], 200)
----------------------------------------------------------------------------
(* routers/transaction.py: edit_transaction *)

(* lines 218-268: the checks of the fields the request supplies *)
edit_transaction_check(db, current_user, transaction_data) ==
    LET account == FindAccount(db, transaction_data.from_account_id, current_user)
        category == FindCategory(db, transaction_data.category_id, current_user)
        sub_category == FindSubCategory(db, transaction_data.sub_category_id, current_user)
    IN  IF transaction_data.from_account_id # NoId /\ account = NoId THEN 404
        ELSE IF transaction_data.category_id # NoId /\ category = NoId THEN 404
        ELSE IF transaction_data.sub_category_id # NoId /\ sub_category = NoId THEN 404
        ELSE IF transaction_data.sub_category_id # NoId
                /\ transaction_data.category_id # NoId
                /\ db.sub_categories[sub_category].category_id
                       # transaction_data.category_id THEN 400
        ELSE 0

(* lines 301-309: the fields of the new row, the request's over the old row's *)
MergedFields(transaction, transaction_data) ==
    [amount |-> IF transaction_data.amount # NoAmount
                THEN transaction_data.amount ELSE transaction.amount,
     type |-> IF transaction_data.type # NoValue
              THEN transaction_data.type ELSE transaction.type,
     date |-> IF transaction_data.date # NoDate
              THEN transaction_data.date ELSE transaction.date,
     notes |-> IF transaction_data.notes # NoValue
               THEN transaction_data.notes ELSE transaction.notes,
     category_id |-> IF transaction_data.category_id # NoId
                     THEN transaction_data.category_id ELSE transaction.category_id,
     sub_category_id |-> IF transaction_data.sub_category_id # NoId
                         THEN transaction_data.sub_category_id
                         ELSE transaction.sub_category_id,
     from_account_id |-> IF transaction_data.from_account_id # NoId
                         THEN transaction_data.from_account_id
                         ELSE transaction.from_account_id,
     to_account_id |-> IF transaction_data.to_account_id # NoId
                       THEN transaction_data.to_account_id
                       ELSE transaction.to_account_id]

(* lines 311-351: the checks of the merged accounts, made in the session   *)
(* that already holds the reversal and the retirement                      *)
edit_transaction_check_new(db, current_user, new) ==
    LET new_account == FindAccount(db, new.from_account_id, current_user)
        new_to_account == FindAccount(db, new.to_account_id, current_user)
    IN  IF new_account = NoId THEN 404
        ELSE IF new.type = TRANSFER
        THEN IF new.to_account_id = NoId THEN 400
             ELSE IF new_to_account = NoId THEN 404
             ELSE IF new.from_account_id = new.to_account_id THEN 400
             ELSE 0
        ELSE 0

(* lines 366-374: the balance effect of the new row *)
edit_transaction_effect(db, new) ==
    LET new_account == new.from_account_id
        new_to_account == new.to_account_id
    IN  IF PyStr(new.type) = "income"
        THEN SetBalance(db, new_account,
                        OrZero(db.accounts[new_account].balance) + new.amount)
        ELSE IF PyStr(new.type) = "expense"
        THEN SetBalance(db, new_account,
                        OrZero(db.accounts[new_account].balance) - new.amount)
        ELSE IF PyStr(new.type) = "transfer"
        THEN LET d1 == SetBalance(db, new_account,
                            OrZero(db.accounts[new_account].balance) - new.amount)
             IN  SetBalance(d1, new_to_account,
                            OrZero(d1.accounts[new_to_account].balance) + new.amount)
        ELSE db

(* an edit that rewrites the stored row instead of retiring it *)
edit_transaction_in_place(db, current_user, transaction_id, transaction_data) ==
    LET transaction == FindTransaction(db, transaction_id, current_user)
        failed == edit_transaction_check(db, current_user, transaction_data)
        old == db.transactions[transaction]
        new == MergedFields(old, transaction_data)
        failed_new == edit_transaction_check_new(db, current_user, new)
        new_transaction == NewTransaction(new.amount, new.type, new.date,
            new.notes, new.category_id, new.sub_category_id,
            new.from_account_id, new.to_account_id, current_user)
    IN  IF transaction = NoId THEN Result(db, 404)
        ELSE IF failed # 0 THEN Result(db, failed)
        ELSE IF failed_new # 0 THEN Result(db, failed_new)
        ELSE Result([db EXCEPT !.transactions[transaction] = new_transaction], 200)

edit_transaction(db, current_user, transaction_id, transaction_data) ==
    LET transaction == FindTransaction(db, transaction_id, current_user)
        failed == edit_transaction_check(db, current_user, transaction_data)
        old == db.transactions[transaction]
        reversed == reverse_effect(db, current_user, old)
        retired == [reversed EXCEPT !.transactions[transaction].is_active = FALSE]
        new == MergedFields(old, transaction_data)
        failed_new == edit_transaction_check_new(retired, current_user, new)
        new_transaction == NewTransaction(new.amount, new.type, new.date,
            new.notes, new.category_id, new.sub_category_id,
            new.from_account_id, new.to_account_id, current_user)
        added == [retired EXCEPT !.transactions = Append(@, new_transaction)]
    IN  IF transaction = NoId THEN Result(db, 404)
        ELSE IF failed # 0 THEN Result(db, failed)
        ELSE IF failed_new # 0 THEN Result(retired, failed_new)
        ELSE Result(edit_transaction_effect(added, new), 200)
----------------------------------------------------------------------------
(* routers/category.py *)

(* .scalar_one_or_none() raises when more than one row matches *)
ActiveCategoriesNamed(db, name, user) ==
    {i \in Ids(db.categories) :
        /\ db.categories[i].name = name
        /\ db.categories[i].user_id = user
        /\ db.categories[i].is_active}

(* an add that does not look for the name among the active categories *)
add_category_unchecked(db, current_user, category_data) ==
    Result([db EXCEPT !.categories = Append(@,
                [name |-> Lower(category_data.name),
                 is_active |-> TRUE,
                 user_id |-> current_user])], 200)

add_category(db, current_user, category_data) ==
    LET existing == ActiveCategoriesNamed(db, Lower(category_data.name), current_user)
    IN  IF Cardinality(existing) > 1 THEN Result(db, 500)
        ELSE IF existing # {} THEN Result(db, 200)
        ELSE Result([db EXCEPT !.categories = Append(@,
                        [name |-> Lower(category_data.name),
                         is_active |-> TRUE,
                         user_id |-> current_user])], 200)

edit_category(db, current_user, category_id, category_data) ==
    LET category == FindCategory(db, category_id, current_user)
        renamed == category_data.name # NoValue
                   /\ Lower(category_data.name) # db.categories[category].name
        existing == ActiveCategoriesNamed(db, Lower(category_data.name), current_user)
                        \ {category_id}
    IN  IF category = NoId THEN Result(db, 404)
        ELSE IF renamed /\ Cardinality(existing) > 1 THEN Result(db, 500)
        ELSE IF renamed /\ existing # {} THEN Result(db, 400)
        ELSE Result([db EXCEPT !.categories[category].name =
                        IF category_data.name # NoValue
                        THEN Lower(category_data.name) ELSE @], 200)

(* a delete that forgets the sub-categories of the category *)
delete_category_no_cascade(db, current_user, category_id) ==
    LET category == FindCategory(db, category_id, current_user)
        active_transactions == {t \in Ids(db.transactions) :
                                   /\ db.transactions[t].category_id = category_id
                                   /\ db.transactions[t].is_active}
    IN  IF category = NoId THEN Result(db, 404)
        ELSE IF Cardinality(active_transactions) > 0 THEN Result(db, 400)
        ELSE Result([db EXCEPT !.categories[category].is_active = FALSE], 200)

delete_category(db, current_user, category_id) ==
    LET category == FindCategory(db, category_id, current_user)
        active_transactions == {t \in Ids(db.transactions) :
                                   /\ db.transactions[t].category_id = category_id
                                   /\ db.transactions[t].is_active}
    IN  IF category = NoId THEN Result(db, 404)
        ELSE IF Cardinality(active_transactions) > 0 THEN Result(db, 400)
        ELSE Result([db EXCEPT
                !.categories[category].is_active = FALSE,
                !.sub_categories = [i \in Ids(@) |->
                    IF @[i].category_id = category_id /\ @[i].is_active
                    THEN [@[i] EXCEPT !.is_active = FALSE] ELSE @[i]]], 200)

----------------------------------------------------------------------------
(* routers/subcategory.py *)

NewSubCategory(name, category_id, user_id) ==
    [name |-> Lower(name), category_id |-> category_id,
     is_active |-> TRUE, user_id |-> user_id]

add_sub_category(db, current_user, sub_category_data) ==
    LET category == FindCategory(db, sub_category_data.category_id, current_user)
        existing == {i \in Ids(db.sub_categories) :
                        /\ db.sub_categories[i].name = Lower(sub_category_data.name)
                        /\ db.sub_categories[i].user_id = current_user
                        /\ db.sub_categories[i].category_id = sub_category_data.category_id
                        /\ db.sub_categories[i].is_active}
    IN  IF category = NoId THEN Result(db, 404)
        ELSE IF existing # {} THEN Result(db, 200)
        ELSE Result([db EXCEPT !.sub_categories = Append(@,
                        NewSubCategory(sub_category_data.name,
                                       sub_category_data.category_id,
                                       current_user))], 200)

delete_sub_category(db, current_user, sub_category_id) ==
    LET sub_category == FindSubCategory(db, sub_category_id, current_user)
        active_transactions == {t \in Ids(db.transactions) :
                                   /\ db.transactions[t].sub_category_id = sub_category_id
                                   /\ db.transactions[t].is_active}
    IN  IF sub_category = NoId THEN Result(db, 404)
        ELSE IF active_transactions # {} THEN Result(db, 400)
        ELSE Result([db EXCEPT !.sub_categories[sub_category].is_active = FALSE], 200)

change_sub_category_category(db, current_user, sub_category_id, new_category_id) ==
    LET sub_category == FindSubCategory(db, sub_category_id, current_user)
        new_category == FindCategory(db, new_category_id, current_user)
        existing == {i \in Ids(db.sub_categories) :
                        /\ db.sub_categories[i].name = db.sub_categories[sub_category].name
                        /\ db.sub_categories[i].user_id = current_user
                        /\ db.sub_categories[i].category_id = new_category_id
                        /\ db.sub_categories[i].is_active
                        /\ i # sub_category_id}
    IN  IF sub_category = NoId THEN Result(db, 404)
        ELSE IF new_category = NoId THEN Result(db, 404)
        ELSE IF existing # {} THEN Result(db, 400)
        ELSE Result([db EXCEPT !.sub_categories =
                Append([@ EXCEPT ![sub_category].is_active = FALSE],
                       NewSubCategory(@[sub_category].name, new_category_id,
                                      current_user))], 200)
----------------------------------------------------------------------------
(* routers/transaction.py: get_transaction_record, get_transaction_detail *)

(* size: int = Query(None, ge=1) *)
NoSize == 0

(* the mapping of the normalised transaction_type to the enum *)
TypeMapping(t) ==
    CASE t = "income" -> INCOME
      [] t = "expense" -> EXPENSE
      [] t = "transfer" -> TRANSFER
      [] OTHER -> NoValue

(* the where clauses without the test of is_active *)
Selected_with_retired(db, current_user, q) ==
    {t \in Ids(db.transactions) :
        /\ db.transactions[t].user_id = current_user
        /\ (q.start_date # NoDate => db.transactions[t].date >= q.start_date)
        /\ (q.end_date # NoDate => db.transactions[t].date <= q.end_date)
        /\ (q.transaction_type # NoValue =>
               db.transactions[t].type = TypeMapping(Lower(q.transaction_type)))
        /\ (q.category_id # NoId => db.transactions[t].category_id = q.category_id)
        /\ (q.sub_category_id # NoId =>
               db.transactions[t].sub_category_id = q.sub_category_id)
        /\ (q.from_account_id # NoId =>
               db.transactions[t].from_account_id = q.from_account_id)
        /\ (q.min_amount # NoAmount => db.transactions[t].amount >= q.min_amount)
        /\ (q.max_amount # NoAmount => db.transactions[t].amount <= q.max_amount)}

(* the rows the statement selects: the base query and one where clause    *)
(* for each filter that is supplied                                        *)
Selected(db, current_user, q) ==
    {t \in Ids(db.transactions) :
        /\ db.transactions[t].user_id = current_user
        /\ db.transactions[t].is_active
        /\ (q.start_date # NoDate => db.transactions[t].date >= q.start_date)
        /\ (q.end_date # NoDate => db.transactions[t].date <= q.end_date)
        /\ (q.transaction_type # NoValue =>
               db.transactions[t].type = TypeMapping(Lower(q.transaction_type)))
        /\ (q.category_id # NoId => db.transactions[t].category_id = q.category_id)
        /\ (q.sub_category_id # NoId =>
               db.transactions[t].sub_category_id = q.sub_category_id)
        /\ (q.from_account_id # NoId =>
               db.transactions[t].from_account_id = q.from_account_id)
        /\ (q.min_amount # NoAmount => db.transactions[t].amount >= q.min_amount)
        /\ (q.max_amount # NoAmount => db.transactions[t].amount <= q.max_amount)}

(* order_by(Transaction.date.desc()): every order of the rows in which no  *)
(* row comes before a row of a later date; the order of rows of one date   *)
(* is the database's choice                                                *)
OrderByDateDesc(db, rows) ==
    {o \in [1..Cardinality(rows) -> rows] :
        /\ \A i, j \in DOMAIN o : o[i] = o[j] => i = j
        /\ \A i, j \in DOMAIN o :
              i < j => db.transactions[o[i]].date >= db.transactions[o[j]].date}

(* offset((page - 1) * size).limit(size), when size is given *)
OffsetLimit(rows, page, size) ==
    IF size # NoSize
    THEN LET offset == (page - 1) * size
             last == IF offset + size < Len(rows) THEN offset + size ELSE Len(rows)
         IN  [k \in 1..(IF last > offset THEN last - offset ELSE 0) |-> rows[offset + k]]
    ELSE rows

(* The lists of transaction ids the handler can return.  The 400 of an    *)
(* unknown transaction_type is raised inside the try block, whose except   *)
(* clause turns every exception into a 500.                                *)
get_transaction_record(db, current_user, q, page, size) ==
    IF q.transaction_type # NoValue
       /\ TypeMapping(Lower(q.transaction_type)) = NoValue
    THEN [status |-> 500, transactions |-> {}]
    ELSE [status |-> 200,
          transactions |-> {OffsetLimit(o, page, size) :
                               o \in OrderByDateDesc(db, Selected(db, current_user, q))}]

get_transaction_detail(db, current_user, transaction_id) ==
    LET transaction == FindTransaction(db, transaction_id, current_user)
    IN  IF transaction = NoId THEN [status |-> 404, transaction |-> NoId]
        ELSE [status |-> 200, transaction |-> transaction]

----------------------------------------------------------------------------
(* routers/transaction.py: import_transactions *)

(* str() of an empty cell of the data frame *)
Blank == "nan"

(* The rows the model feeds in: rows that pass every check, and rows that  *)
(* fail exactly one of them.  A date that parses is its value, a date that *)
(* matches none of the three formats is NoDate.                            *)
GoodRows ==
    [date : {1}, account : {"wallet", "Cash"}, entry_type : {"Income", "expense"},
     category : {"Food", "Fun"}, sub_category : {"meal"}, amount : {1},
     to_account : {Blank}, notes : {""}]
    \cup
    [date : {1}, account : {"wallet"}, entry_type : {"transfer"},
     category : {Blank}, sub_category : {Blank}, amount : {1},
     to_account : {"Bank", "wallet", "Cash"}, notes : {""}]

BadRows ==
    LET income == [date |-> 1, account |-> "wallet", entry_type |-> "income",
                   category |-> "Food", sub_category |-> "meal", amount |-> 1,
                   to_account |-> Blank, notes |-> ""]
        transfer == [date |-> 1, account |-> "wallet", entry_type |-> "transfer",
                     category |-> Blank, sub_category |-> Blank, amount |-> 1,
                     to_account |-> "bank", notes |-> ""]
    IN  {[income EXCEPT !.entry_type = "bogus"],
         [income EXCEPT !.date = NoDate],
         [income EXCEPT !.amount = 0],
         [income EXCEPT !.category = Blank],
         [income EXCEPT !.sub_category = Blank],
         [transfer EXCEPT !.category = "Food"],
         [transfer EXCEPT !.sub_category = "meal"],
         [transfer EXCEPT !.to_account = Blank]}

ImportRows == GoodRows \cup BadRows

ImportFiles == UNION {[1..n -> ImportRows] : n \in 0..MaxRows}

ActiveAccountsNamed(db, name, user) ==
    {i \in Ids(db.accounts) :
        /\ db.accounts[i].name = name
        /\ db.accounts[i].user_id = user
        /\ db.accounts[i].is_active}

ActiveSubCategoriesNamed(db, name, category_id, user) ==
    {i \in Ids(db.sub_categories) :
        /\ db.sub_categories[i].name = name
        /\ db.sub_categories[i].category_id = category_id
        /\ db.sub_categories[i].user_id = user
        /\ db.sub_categories[i].is_active}

(* the state of the loop over the rows: the session and the counters *)
ImportStart(db) ==
    [db |-> db, imported_count |-> 0, created_accounts |-> 0,
     created_categories |-> 0, created_subcategories |-> 0,
     validation_errors |-> <<>>]

RowError(st, row_num) ==
    [st EXCEPT !.validation_errors = Append(@, row_num)]

(* an account is created for the name without a look at the table *)
GetOrCreateAccount_always_creates(st, name, user) ==
    [st |-> [st EXCEPT
                !.db.accounts = Append(@, [name |-> name, balance |-> 0,
                                           is_active |-> TRUE,
                                           user_id |-> user]),
                !.created_accounts = @ + 1],
     id |-> Len(st.db.accounts) + 1]

(* lines 678-696 and 726-736: get or create an account by lowercased name; *)
(* id is NoId when the lookup raises (several rows match)                   *)
GetOrCreateAccount(st, name, user) ==
    LET found == ActiveAccountsNamed(st.db, name, user)
    IN  IF Cardinality(found) > 1 THEN [st |-> st, id |-> NoId]
        ELSE IF found # {} THEN [st |-> st, id |-> CHOOSE i \in found : TRUE]
        ELSE [st |-> [st EXCEPT
                        !.db.accounts = Append(@, [name |-> name, balance |-> 0,
                                                   is_active |-> TRUE,
                                                   user_id |-> user]),
                        !.created_accounts = @ + 1],
              id |-> Len(st.db.accounts) + 1]

GetOrCreateCategory(st, name, user) ==
    LET found == ActiveCategoriesNamed(st.db, name, user)
    IN  IF Cardinality(found) > 1 THEN [st |-> st, id |-> NoId]
        ELSE IF found # {} THEN [st |-> st, id |-> CHOOSE i \in found : TRUE]
        ELSE [st |-> [st EXCEPT
                        !.db.categories = Append(@, [name |-> name,
                                                     is_active |-> TRUE,
                                                     user_id |-> user]),
                        !.created_categories = @ + 1],
              id |-> Len(st.db.categories) + 1]

GetOrCreateSubCategory(st, name, category_id, user) ==
    LET found == ActiveSubCategoriesNamed(st.db, name, category_id, user)
    IN  IF Cardinality(found) > 1 THEN [st |-> st, id |-> NoId]
        ELSE IF found # {} THEN [st |-> st, id |-> CHOOSE i \in found : TRUE]
        ELSE [st |-> [st EXCEPT
                        !.db.sub_categories =
                            Append(@, NewSubCategory(name, category_id, user)),
                        !.created_subcategories = @ + 1],
              id |-> Len(st.db.sub_categories) + 1]

(* a transfer row that debits the account and forgets the to-account *)
ImportTransferRow_no_credit(st, row, row_num, account, user) ==
    LET to == GetOrCreateAccount(st, Lower(row.to_account), user)
        transfer_transaction ==
            NewTransaction(row.amount, "transfer", row.date, row.notes,
                           NoId, NoId, account, to.id, user)
        added == [to.st EXCEPT !.db.transactions = Append(@, transfer_transaction)]
        d1 == SetBalance(added.db, account,
                         OrZero(added.db.accounts[account].balance) - row.amount)
    IN  IF row.category # "" /\ Lower(row.category) # "nan" THEN RowError(st, row_num)
        ELSE IF row.sub_category # "" /\ Lower(row.sub_category) # "nan"
        THEN RowError(st, row_num)
        ELSE IF row.to_account = "" \/ Lower(row.to_account) = "nan"
        THEN RowError(st, row_num)
        ELSE IF to.id = NoId THEN RowError(to.st, row_num)
        ELSE [added EXCEPT !.db = d1, !.imported_count = @ + 1]

(* lines 698-756: a transfer row, the account already resolved *)
ImportTransferRow(st, row, row_num, account, user) ==
    LET to == GetOrCreateAccount(st, Lower(row.to_account), user)
        transfer_transaction ==
            NewTransaction(row.amount, "transfer", row.date, row.notes,
                           NoId, NoId, account, to.id, user)
        added == [to.st EXCEPT !.db.transactions = Append(@, transfer_transaction)]
        d1 == SetBalance(added.db, account,
                         OrZero(added.db.accounts[account].balance) - row.amount)
        d2 == SetBalance(d1, to.id, OrZero(d1.accounts[to.id].balance) + row.amount)
    IN  IF row.category # "" /\ Lower(row.category) # "nan" THEN RowError(st, row_num)
        ELSE IF row.sub_category # "" /\ Lower(row.sub_category) # "nan"
        THEN RowError(st, row_num)
        ELSE IF row.to_account = "" \/ Lower(row.to_account) = "nan"
        THEN RowError(st, row_num)
        ELSE IF to.id = NoId THEN RowError(to.st, row_num)
        ELSE [added EXCEPT !.db = d2, !.imported_count = @ + 1]

(* lines 758-820: an income or expense row, the account already resolved *)
ImportEntryRow(st, row, row_num, entry_type, account, user) ==
    LET cat == GetOrCreateCategory(st, Lower(row.category), user)
        sub == GetOrCreateSubCategory(cat.st, Lower(row.sub_category), cat.id, user)
        transaction ==
            NewTransaction(row.amount, entry_type, row.date, row.notes,
                           cat.id, sub.id, account, NoId, user)
        added == [sub.st EXCEPT !.db.transactions = Append(@, transaction)]
        balance == OrZero(added.db.accounts[account].balance)
        d1 == SetBalance(added.db, account,
                         IF entry_type = "income" THEN balance + row.amount
                         ELSE balance - row.amount)
    IN  IF row.category = "" \/ Lower(row.category) = "nan" THEN RowError(st, row_num)
        ELSE IF row.sub_category = "" \/ Lower(row.sub_category) = "nan"
        THEN RowError(st, row_num)
        ELSE IF cat.id = NoId THEN RowError(cat.st, row_num)
        ELSE IF sub.id = NoId THEN RowError(sub.st, row_num)
        ELSE [added EXCEPT !.db = d1, !.imported_count = @ + 1]

(* lines 609-827: one pass of the loop; index is the 0-based row index *)
ImportRow(st, row, index, user) ==
    LET row_num == index + 2
        entry_type == Lower(row.entry_type)
        acc == GetOrCreateAccount(st, Lower(row.account), user)
    IN  IF entry_type \notin {"income", "expense", "transfer"} THEN RowError(st, row_num)
        ELSE IF row.date = NoDate THEN RowError(st, row_num)
        ELSE IF row.amount <= 0 THEN RowError(st, row_num)
        ELSE IF row.account = "" THEN RowError(st, row_num)
        ELSE IF acc.id = NoId THEN RowError(acc.st, row_num)
        ELSE IF entry_type = "transfer"
        THEN ImportTransferRow(acc.st, row, row_num, acc.id, user)
        ELSE ImportEntryRow(acc.st, row, row_num, entry_type, acc.id, user)

RECURSIVE ImportLoop(_, _, _, _)
ImportLoop(st, file, index, user) ==
    IF index >= Len(file) THEN st
    ELSE ImportLoop(ImportRow(st, file[index + 1], index, user), file, index + 1, user)

(* await db.rollback(): the session goes back to the committed database *)
rollback(db, session) == db

(* an import that skips the rows that failed and keeps the others *)
import_transactions_partial(db, current_user, file) ==
    LET st == ImportLoop(ImportStart(db), file, 0, current_user)
    IN  [db |-> st.db, status |-> 200, success |-> st.validation_errors = <<>>,
         importedCount |-> st.imported_count,
         createdAccounts |-> st.created_accounts,
         createdCategories |-> st.created_categories,
         createdSubcategories |-> st.created_subcategories,
         validationErrors |-> st.validation_errors]

(* lines 829-856: roll back and report zero counts when a row failed, else *)
(* commit and report the counters                                          *)
import_transactions(db, current_user, file) ==
    LET st == ImportLoop(ImportStart(db), file, 0, current_user)
    IN  IF st.validation_errors # <<>>
        THEN [db |-> rollback(db, st.db), status |-> 200, success |-> FALSE,
              importedCount |-> 0, createdAccounts |-> 0,
              createdCategories |-> 0, createdSubcategories |-> 0,
              validationErrors |-> st.validation_errors]
        ELSE [db |-> st.db, status |-> 200, success |-> TRUE,
              importedCount |-> st.imported_count,
              createdAccounts |-> st.created_accounts,
              createdCategories |-> st.created_categories,
              createdSubcategories |-> st.created_subcategories,
              validationErrors |-> <<>>]
----------------------------------------------------------------------------
(* The requests as steps of the system *)

(* a session dependency that commits whatever the session holds on close *)
get_db_commit_on_close(db, result) == result.db

(* database.get_db: what is committed when the handler returns or raises.  *)
(* Every handler commits last, just before it answers 200; a handler that  *)
(* raises leaves a session that is closed without a commit.                *)
get_db(db, result) == IF result.status = 200 THEN result.db ELSE db

Tables(db) ==
    /\ accounts' = db.accounts
    /\ categories' = db.categories
    /\ sub_categories' = db.sub_categories
    /\ transactions' = db.transactions

(* a request that runs alone: its session opens and closes within the step *)
Store(db) ==
    /\ Tables(db)
    /\ UNCHANGED sessions

(* the tables stay within the bounds of the model *)
Bounded(db) ==
    /\ Len(db.accounts) <= MaxAccounts
    /\ Len(db.categories) <= MaxCategories
    /\ Len(db.sub_categories) <= MaxSubCategories
    /\ Len(db.transactions) <= MaxTransactions

(* The requests of the model.  The ids of a request range over the rows    *)
(* of the caller, the rows of the other user and None; category_id and     *)
(* sub_category_id come in the pairs that reach each branch of the checks: *)
(* none, a sub-category of the category, a sub-category of another         *)
(* category, and a category or a sub-category of the other user.           *)
Callers == {1}

AccountIds == 1..3

CategoryPairs == {<<0, 0>>, <<1, 1>>, <<1, 2>>, <<3, 0>>, <<0, 3>>}

TransactionCreate ==
    {[amount |-> a, type |-> t, date |-> 1, notes |-> "",
      category_id |-> p[1], sub_category_id |-> p[2],
      from_account_id |-> f, to_account_id |-> o] :
        a \in Amounts, t \in TransactionType, p \in CategoryPairs,
        f \in AccountIds, o \in {NoId} \cup AccountIds}

TransactionUpdate ==
    {[amount |-> a, type |-> t, date |-> NoDate, notes |-> NoValue,
      category_id |-> p[1], sub_category_id |-> p[2],
      from_account_id |-> f, to_account_id |-> o] :
        a \in {NoAmount} \cup Amounts, t \in {NoValue} \cup TransactionType,
        p \in CategoryPairs, f \in {NoId} \cup AccountIds,
        o \in {NoId} \cup AccountIds}

CategoryData == [name : CategoryNames]
CategoryUpdate == [name : CategoryNames \cup {NoValue}]
SubCategoryData == [name : SubCategoryNames, category_id : 1..MaxCategories]

(* The database the model starts from: user 1 has the accounts wallet and  *)
(* bank, the categories food and rent with one sub-category each; user 2   *)
(* has an account, a category, a sub-category and one expense of 1.        *)
Account(name, balance, user_id) ==
    [name |-> Lower(name), balance |-> balance, is_active |-> TRUE,
     user_id |-> user_id]

Category(name, user_id) ==
    [name |-> Lower(name), is_active |-> TRUE, user_id |-> user_id]

(* The requests in flight when handlers overlap.  Each request has its    *)
(* own AsyncSession: it holds what the handler read (snapshot), what the   *)
(* handler made of it by the time it reaches db.commit() (pending), and    *)
(* the request itself.                                                     *)
Sessions == 1..MaxSessions

EmptyDB == [accounts |-> <<>>, categories |-> <<>>,
            sub_categories |-> <<>>, transactions |-> <<>>]

NoData ==
    [amount |-> NoAmount, type |-> NoValue, date |-> NoDate, notes |-> NoValue,
     category_id |-> NoId, sub_category_id |-> NoId,
     from_account_id |-> NoId, to_account_id |-> NoId]

Request(kind, user, id, data) ==
    [kind |-> kind, user |-> user, id |-> id, data |-> data]

NoSession ==
    [open |-> FALSE, request |-> Request("none", NoId, NoId, NoData),
     snapshot |-> EmptyDB, pending |-> EmptyDB]

InitialDB ==
    [accounts |-> <<Account("wallet", 0, 1), Account("bank", 0, 1),
                    Account("wallet", -1, 2)>>,
     categories |-> <<Category("food", 1), Category("rent", 1),
                      Category("food", 2),
                      [Category("fun", 1) EXCEPT !.is_active = FALSE]>>,
     sub_categories |-> <<NewSubCategory("meal", 1, 1), NewSubCategory("lease", 2, 1),
                          NewSubCategory("meal", 3, 2),
                          [NewSubCategory("lease", 1, 1) EXCEPT !.is_active = FALSE]>>,
     transactions |-> <<NewTransaction(1, EXPENSE, 1, "", 3, 3, 3, NoId, 2)>>]

Init ==
    /\ sessions = [s \in Sessions |-> NoSession]
    /\ accounts = InitialDB.accounts
    /\ categories = InitialDB.categories
    /\ sub_categories = InitialDB.sub_categories
    /\ transactions = InitialDB.transactions

(* The ledgers the list is read from: the initial database after up to    *)
(* two transactions of user 1 on different dates.                          *)
DatedAdds ==
    {[amount |-> a, type |-> x.type, date |-> d, notes |-> "",
      category_id |-> x.c, sub_category_id |-> x.c,
      from_account_id |-> x.f, to_account_id |-> x.t] :
        a \in Amounts, d \in 1..MaxDate,
        x \in {[type |-> INCOME, c |-> 1, f |-> 1, t |-> NoId],
               [type |-> EXPENSE, c |-> 2, f |-> 2, t |-> NoId],
               [type |-> TRANSFER, c |-> NoId, f |-> 1, t |-> 2]}}

RECURSIVE AddedInTurn(_, _, _)
AddedInTurn(db, requests, n) ==
    IF n = 0 THEN db
    ELSE LET before == AddedInTurn(db, requests, n - 1)
         IN  get_db(before, add_transaction(before, 1, requests[n]))

InitList ==
    /\ sessions = [s \in Sessions |-> NoSession]
    /\ \E n \in 0..(MaxTransactions - 1) :
          \E requests \in [1..n -> DatedAdds] :
             LET db == AddedInTurn(InitialDB, requests, n)
             IN  /\ accounts = db.accounts
                 /\ categories = db.categories
                 /\ sub_categories = db.sub_categories
                 /\ transactions = db.transactions

AddAccount ==
    \E u \in Callers, d \in AccountData :
        LET result == add_account(DB, u, d)
        IN  /\ Bounded(result.db)
            /\ Store(get_db(DB, result))

EditAccount ==
    \E u \in Callers, id \in 1..MaxAccounts, d \in AccountUpdate :
        LET result == edit_account(DB, u, id, d)
        IN  /\ Bounded(result.db)
            /\ Store(get_db(DB, result))

DeleteAccount ==
    \E u \in Callers, id \in 1..MaxAccounts :
        LET result == delete_account(DB, u, id)
        IN  /\ Bounded(result.db)
            /\ Store(get_db(DB, result))

AddCategory ==
    \E u \in Callers, d \in CategoryData :
        LET result == add_category(DB, u, d)
        IN  /\ Bounded(result.db)
            /\ Store(get_db(DB, result))

EditCategory ==
    \E u \in Callers, id \in 1..MaxCategories, d \in CategoryUpdate :
        LET result == edit_category(DB, u, id, d)
        IN  /\ Bounded(result.db)
            /\ Store(get_db(DB, result))

DeleteCategory ==
    \E u \in Callers, id \in 1..MaxCategories :
        LET result == delete_category(DB, u, id)
        IN  /\ Bounded(result.db)
            /\ Store(get_db(DB, result))

AddSubCategory ==
    \E u \in Callers, d \in SubCategoryData :
        LET result == add_sub_category(DB, u, d)
        IN  /\ Bounded(result.db)
            /\ Store(get_db(DB, result))

DeleteSubCategory ==
    \E u \in Callers, id \in 1..MaxSubCategories :
        LET result == delete_sub_category(DB, u, id)
        IN  /\ Bounded(result.db)
            /\ Store(get_db(DB, result))

ChangeCategory ==
    \E u \in Callers, id \in 1..MaxSubCategories, c \in 1..MaxCategories :
        LET result == change_sub_category_category(DB, u, id, c)
        IN  /\ Bounded(result.db)
            /\ Store(get_db(DB, result))

AddTransaction ==
    \E u \in Callers, d \in TransactionCreate :
        LET result == add_transaction(DB, u, d)
        IN  /\ Bounded(result.db)
            /\ Store(get_db(DB, result))

EditTransaction ==
    \E u \in Callers, id \in 1..MaxTransactions, d \in TransactionUpdate :
        LET result == edit_transaction(DB, u, id, d)
        IN  /\ Bounded(result.db)
            /\ Store(get_db(DB, result))

DeleteTransaction ==
    \E u \in Callers, id \in 1..MaxTransactions :
        LET result == delete_transaction(DB, u, id)
        IN  /\ Bounded(result.db)
            /\ Store(get_db(DB, result))

ImportTransactions ==
    \E u \in Callers, file \in ImportFiles :
        LET result == import_transactions(DB, u, file)
        IN  /\ Bounded(result.db)
            /\ Store(get_db(DB, result))

(* the ledger: adding, editing and deleting transactions *)
LedgerNext ==
    \/ AddTransaction
    \/ EditTransaction
    \/ DeleteTransaction

SpecLedger == Init /\ [][LedgerNext]_vars

(* the import of files next to the deletion of what they brought in *)
ImportNext ==
    \/ ImportTransactions
    \/ DeleteTransaction

SpecImport == Init /\ [][ImportNext]_vars

(* transactions next to the soft deletes of what they reference *)
LifecycleNext ==
    \/ AddTransaction
    \/ DeleteCategory
    \/ DeleteSubCategory
    \/ ChangeCategory

SpecLifecycle == Init /\ [][LifecycleNext]_vars

(* the ledger the list and the detail are read from *)
ListNext ==
    \/ DeleteTransaction

SpecList == InitList /\ [][ListNext]_vars

(* the handlers that create, rename or retire a named row *)
NamesNext ==
    \/ AddAccount
    \/ EditAccount
    \/ AddCategory
    \/ EditCategory
    \/ DeleteCategory
    \/ AddSubCategory
    \/ ChangeCategory

SpecNames == Init /\ [][NamesNext]_vars

Next ==
    \/ AddAccount
    \/ EditAccount
    \/ DeleteAccount
    \/ AddCategory
    \/ EditCategory
    \/ DeleteCategory
    \/ AddSubCategory
    \/ DeleteSubCategory
    \/ ChangeCategory
    \/ AddTransaction
    \/ EditTransaction
    \/ DeleteTransaction
    \/ ImportTransactions

Spec == Init /\ [][Next]_vars

----------------------------------------------------------------------------
(* Overlapping requests.  A handler awaits at every query, so another      *)
(* request can run between the reads of one handler and its commit.  The   *)
(* handler's reads are one step (Begin...), its db.commit() another        *)
(* (Commit); nothing locks the rows in between (no with_for_update, no     *)
(* version column, the engine's default isolation level).                  *)

(* the handler of a request *)
Handle(db, request) ==
    IF request.kind = "add"
    THEN add_transaction(db, request.user, request.data)
    ELSE IF request.kind = "edit"
    THEN edit_transaction(db, request.user, request.id, request.data)
    ELSE delete_transaction(db, request.user, request.id)

(* a commit that writes the new rows and the flags but not the balances *)
commit_without_balances(db, session) ==
    LET snapshot == session.snapshot
        pending == session.pending
        rows == [i \in Ids(db.transactions) |->
                    IF i \in Ids(snapshot.transactions)
                       /\ pending.transactions[i].is_active
                              # snapshot.transactions[i].is_active
                    THEN [db.transactions[i] EXCEPT
                             !.is_active = pending.transactions[i].is_active]
                    ELSE db.transactions[i]]
        new_rows == SubSeq(pending.transactions, Len(snapshot.transactions) + 1,
                           Len(pending.transactions))
    IN  [db EXCEPT !.transactions = rows \o new_rows]

(* await db.commit(): the unit of work flushes, in one database            *)
(* transaction, an UPDATE of every column the handler changed on a row it  *)
(* loaded, with the value the handler computed, and an INSERT of every row *)
(* it added, which gets the next id.                                       *)
commit(db, session) ==
    LET snapshot == session.snapshot
        pending == session.pending
        balances == [i \in Ids(db.accounts) |->
                        IF i \in Ids(snapshot.accounts)
                           /\ pending.accounts[i].balance # snapshot.accounts[i].balance
                        THEN [db.accounts[i] EXCEPT
                                 !.balance = pending.accounts[i].balance]
                        ELSE db.accounts[i]]
        rows == [i \in Ids(db.transactions) |->
                    IF i \in Ids(snapshot.transactions)
                       /\ pending.transactions[i].is_active
                              # snapshot.transactions[i].is_active
                    THEN [db.transactions[i] EXCEPT
                             !.is_active = pending.transactions[i].is_active]
                    ELSE db.transactions[i]]
        new_rows == SubSeq(pending.transactions, Len(snapshot.transactions) + 1,
                           Len(pending.transactions))
    IN  [db EXCEPT !.accounts = balances, !.transactions = rows \o new_rows]

(* the requests that overlap in the model: on the wallet, without category *)
ConcurrentAdds ==
    {d \in TransactionCreate :
        /\ d.category_id = NoId /\ d.sub_category_id = NoId
        /\ d.from_account_id = 1 /\ d.to_account_id \in {NoId, 2}}

ConcurrentEdits == {[NoData EXCEPT !.amount = a] : a \in Amounts}

(* the handler runs up to its db.commit(); a handler that raises closes    *)
(* its session at once                                                     *)
Begin(s, request) ==
    LET result == Handle(DB, request)
    IN  IF result.status = 200
        THEN [sessions EXCEPT ![s] =
                 [open |-> TRUE, request |-> request,
                  snapshot |-> DB, pending |-> result.db]]
        ELSE sessions

BeginAdd ==
    \E s \in Sessions, u \in Callers, d \in ConcurrentAdds :
        /\ ~sessions[s].open
        /\ sessions' = Begin(s, Request("add", u, NoId, d))
        /\ UNCHANGED <<accounts, categories, sub_categories, transactions>>

BeginEdit ==
    \E s \in Sessions, u \in Callers, id \in 1..MaxTransactions, d \in ConcurrentEdits :
        /\ ~sessions[s].open
        /\ sessions' = Begin(s, Request("edit", u, id, d))
        /\ UNCHANGED <<accounts, categories, sub_categories, transactions>>

BeginDelete ==
    \E s \in Sessions, u \in Callers, id \in 1..MaxTransactions :
        /\ ~sessions[s].open
        /\ sessions' = Begin(s, Request("delete", u, id, NoData))
        /\ UNCHANGED <<accounts, categories, sub_categories, transactions>>

Commit ==
    \E s \in Sessions :
        /\ sessions[s].open
        /\ Bounded(commit(DB, sessions[s]))
        /\ Tables(commit(DB, sessions[s]))
        /\ sessions' = [sessions EXCEPT ![s] = NoSession]

(* the commit raises: the database rolls the transaction back *)
CommitFails ==
    \E s \in Sessions :
        /\ sessions[s].open
        /\ sessions' = [sessions EXCEPT ![s] = NoSession]
        /\ UNCHANGED <<accounts, categories, sub_categories, transactions>>

ConcurrentNext ==
    \/ BeginAdd
    \/ BeginEdit
    \/ BeginDelete
    \/ Commit
    \/ CommitFails

SpecConcurrent == Init /\ [][ConcurrentNext]_vars

----------------------------------------------------------------------------
(* What the claims speak about *)

Balance(db, id) == db.accounts[id].balance

Balances(db) == [i \in Ids(db.accounts) |-> db.accounts[i].balance]

(* the fields of a transaction row other than the active flag *)
Fields(row) ==
    [amount |-> row.amount, type |-> row.type, date |-> row.date,
     notes |-> row.notes, from_account_id |-> row.from_account_id,
     to_account_id |-> row.to_account_id, category_id |-> row.category_id,
     sub_category_id |-> row.sub_category_id, user_id |-> row.user_id]

(* the signed effect of a transaction on an account, as the specification  *)
(* of the balance effect engine states it                                  *)
SignedEffect(row, account) ==
    (IF row.from_account_id = account
     THEN IF row.type = INCOME THEN row.amount ELSE 0 - row.amount
     ELSE 0)
    + (IF row.type = TRANSFER /\ row.to_account_id = account
       THEN row.amount ELSE 0)

RECURSIVE LedgerSum(_, _, _)
LedgerSum(ledger, account, n) ==
    IF n = 0 THEN 0
    ELSE LedgerSum(ledger, account, n - 1)
         + (IF ledger[n].is_active THEN SignedEffect(ledger[n], account) ELSE 0)

(* the committed database after a request *)
AfterAdd(db, u, d) == get_db(db, add_transaction(db, u, d))
AfterEdit(db, u, id, d) == get_db(db, edit_transaction(db, u, id, d))
AfterDelete(db, u, id) == get_db(db, delete_transaction(db, u, id))

(* P holds of the committed database after every request of every handler *)
AfterEveryRequest(P(_)) ==
    /\ \A u \in Callers, d \in AccountData :
          P(get_db(DB, add_account(DB, u, d)))
    /\ \A u \in Callers, id \in 1..MaxAccounts, d \in AccountUpdate :
          P(get_db(DB, edit_account(DB, u, id, d)))
    /\ \A u \in Callers, id \in 1..MaxAccounts :
          P(get_db(DB, delete_account(DB, u, id)))
    /\ \A u \in Callers, d \in CategoryData :
          P(get_db(DB, add_category(DB, u, d)))
    /\ \A u \in Callers, id \in 1..MaxCategories, d \in CategoryUpdate :
          P(get_db(DB, edit_category(DB, u, id, d)))
    /\ \A u \in Callers, id \in 1..MaxCategories :
          P(get_db(DB, delete_category(DB, u, id)))
    /\ \A u \in Callers, d \in SubCategoryData :
          P(get_db(DB, add_sub_category(DB, u, d)))
    /\ \A u \in Callers, id \in 1..MaxSubCategories :
          P(get_db(DB, delete_sub_category(DB, u, id)))
    /\ \A u \in Callers, id \in 1..MaxSubCategories, c \in 1..MaxCategories :
          P(get_db(DB, change_sub_category_category(DB, u, id, c)))
    /\ \A u \in Callers, d \in TransactionCreate :
          P(AfterAdd(DB, u, d))
    /\ \A u \in Callers, id \in 1..MaxTransactions, d \in TransactionUpdate :
          P(AfterEdit(DB, u, id, d))
    /\ \A u \in Callers, id \in 1..MaxTransactions :
          P(AfterDelete(DB, u, id))
    /\ \A u \in Callers, file \in ImportFiles :
          P(get_db(DB, import_transactions(DB, u, file)))

----------------------------------------------------------------------------
(* C1: in every reachable state every account's balance equals the sum of  *)
(* the signed effects of the ACTIVE transactions that reference it as      *)
(* from- or to-account.  The handlers break it: delete_transaction and     *)
(* edit_transaction compare str() of the enum member with "income",        *)
(* "expense" and "transfer", which never match, so nothing is reversed.    *)
C1_BalanceEqualsLedgerSum ==
    \A a \in Ids(accounts) :
        accounts[a].balance = LedgerSum(transactions, a, Len(transactions))

(* C2: a successful Add of an income of amount a on account X leaves       *)
(* X.balance = pre + a, of an expense X.balance = pre - a, and changes no  *)
(* other account's balance.                                                *)
C2_AddIncomeExpenseEffect ==
    \A u \in Callers, d \in TransactionCreate :
        LET result == add_transaction(DB, u, d)
            after == get_db(DB, result)
        IN  (result.status = 200 /\ d.type \in {INCOME, EXPENSE}) =>
                /\ Balance(after, d.from_account_id) =
                       Balance(DB, d.from_account_id)
                       + (IF d.type = INCOME THEN d.amount ELSE 0 - d.amount)
                /\ \A i \in Ids(accounts) \ {d.from_account_id} :
                       Balance(after, i) = Balance(DB, i)

(* an income has been added to the wallet and the wallet holds its amount *)
C2_Witness ==
    \E t \in Ids(transactions) :
        /\ transactions[t].user_id = 1
        /\ transactions[t].is_active
        /\ transactions[t].type = INCOME
        /\ transactions[t].from_account_id = 1
        /\ accounts[1].balance = transactions[t].amount

(* C3: a successful Add of a transfer of amount a from X to a different Y  *)
(* leaves X.balance = pre.X - a and Y.balance = pre.Y + a, every other     *)
(* balance as it was, so the sum of the two (and of all) is unchanged.     *)
C3_AddTransferEffect ==
    \A u \in Callers, d \in TransactionCreate :
        LET result == add_transaction(DB, u, d)
            after == get_db(DB, result)
            X == d.from_account_id
            Y == d.to_account_id
        IN  (result.status = 200 /\ d.type = TRANSFER) =>
                /\ X # Y
                /\ Balance(after, X) = Balance(DB, X) - d.amount
                /\ Balance(after, Y) = Balance(DB, Y) + d.amount
                /\ Balance(after, X) + Balance(after, Y) = Balance(DB, X) + Balance(DB, Y)
                /\ \A i \in Ids(accounts) \ {X, Y} : Balance(after, i) = Balance(DB, i)

(* a transfer from the wallet to the bank has been added to fresh accounts *)
C3_Witness ==
    \E t \in Ids(transactions) :
        /\ transactions[t].user_id = 1
        /\ transactions[t].is_active
        /\ transactions[t].type = TRANSFER
        /\ transactions[t].from_account_id = 1
        /\ transactions[t].to_account_id = 2
        /\ accounts[1].balance = 0 - transactions[t].amount
        /\ accounts[2].balance = transactions[t].amount

(* C4: a successful Add followed by a successful Delete of the added       *)
(* transaction restores every account's balance to its value before the    *)
(* Add.  The code does not: Delete reverses nothing (see C1).              *)
C4_AddThenDeleteRestores ==
    \A u \in Callers, d \in TransactionCreate :
        LET added == add_transaction(DB, u, d)
            deleted == delete_transaction(added.db, u, Len(added.db.transactions))
        IN  (added.status = 200 /\ deleted.status = 200) =>
                Balances(get_db(added.db, deleted)) = Balances(DB)

(* C5: whenever Edit succeeds, the balances after it are those after       *)
(* Delete of the old transaction followed by Add of the merged fields.     *)
(* The code's Edit neither reverses the old effect nor applies the new.    *)
C5_EditIsDeleteThenAdd ==
    \A u \in Callers, id \in 1..MaxTransactions, d \in TransactionUpdate :
        LET edited == edit_transaction(DB, u, id, d)
            deleted == AfterDelete(DB, u, id)
            merged == MergedFields(transactions[id], d)
        IN  edited.status = 200 =>
                Balances(get_db(DB, edited)) = Balances(AfterAdd(deleted, u, merged))

(* C6: under every operation the fields of an existing transaction row,   *)
(* all but the active flag, stay what they were when the row was created;  *)
(* an edit adds a row and never rewrites one.                              *)
RowsKept(after) ==
    /\ Len(after.transactions) >= Len(transactions)
    /\ \A i \in Ids(transactions) :
          Fields(after.transactions[i]) = Fields(transactions[i])

C6_RowsImmutable == AfterEveryRequest(RowsKept)

(* an edit has acted: the row it retired keeps its amount beside the       *)
(* active row that carries another amount on the same account and type     *)
C6_Witness ==
    \E i, j \in Ids(transactions) :
        /\ i < j
        /\ transactions[i].user_id = 1 /\ transactions[j].user_id = 1
        /\ ~transactions[i].is_active /\ transactions[j].is_active
        /\ transactions[i].type = transactions[j].type
        /\ transactions[i].from_account_id = transactions[j].from_account_id
        /\ transactions[i].amount # transactions[j].amount
        /\ \E d \in TransactionUpdate :
              /\ edit_transaction(DB, 1, j, d).status = 200
              /\ Len(AfterEdit(DB, 1, j, d).transactions) = Len(transactions) + 1

(* C7: a retired transaction stays retired: no request of any handler sets *)
(* the active flag of a row back to true.                                  *)
StaysRetired(after) ==
    \A i \in Ids(transactions) :
        ~transactions[i].is_active => ~after.transactions[i].is_active

C7_RetiredForever == AfterEveryRequest(StaysRetired)

(* the caller has a retired row, and neither Delete nor Edit finds it *)
C7_Witness ==
    \E i \in Ids(transactions) :
        /\ transactions[i].user_id = 1
        /\ ~transactions[i].is_active
        /\ delete_transaction(DB, 1, i).status = 404
        /\ \A d \in TransactionUpdate : edit_transaction(DB, 1, i, d).status = 404

(* ids no table holds, and the rows of the caller that are inactive *)
AbsentId == MaxAccounts + MaxCategories + MaxSubCategories + MaxTransactions + 1

UnusablePairs == {<<4, 0>>, <<0, 4>>, <<AbsentId, 0>>, <<0, AbsentId>>}

UsableAccount(db, id, user) ==
    /\ id \in Ids(db.accounts)
    /\ db.accounts[id].user_id = user
    /\ db.accounts[id].is_active

UsableCategory(db, id, user) ==
    /\ id \in Ids(db.categories)
    /\ db.categories[id].user_id = user
    /\ db.categories[id].is_active

UsableSubCategory(db, id, user) ==
    /\ id \in Ids(db.sub_categories)
    /\ db.sub_categories[id].user_id = user
    /\ db.sub_categories[id].is_active

(* the requests of the model and requests that name unusable rows *)
EditRequests ==
    TransactionUpdate \cup
    {[amount |-> NoAmount, type |-> t, date |-> NoDate, notes |-> NoValue,
      category_id |-> p[1], sub_category_id |-> p[2],
      from_account_id |-> f, to_account_id |-> o] :
        t \in {NoValue} \cup TransactionType,
        p \in CategoryPairs \cup UnusablePairs,
        f \in {NoId, AbsentId} \cup AccountIds,
        o \in {NoId, AbsentId} \cup AccountIds}

AddRequests ==
    TransactionCreate \cup
    {[amount |-> 1, type |-> t, date |-> 1, notes |-> "",
      category_id |-> p[1], sub_category_id |-> p[2],
      from_account_id |-> f, to_account_id |-> o] :
        t \in TransactionType, p \in CategoryPairs \cup UnusablePairs,
        f \in {AbsentId} \cup AccountIds,
        o \in {NoId, AbsentId} \cup AccountIds}

(* the validations of Edit, as the specification lists them *)
EditFailsValidation(db, user, id, d) ==
    \/ ~(id \in Ids(db.transactions))
    \/ db.transactions[id].user_id # user
    \/ ~db.transactions[id].is_active
    \/ LET merged == MergedFields(db.transactions[id], d)
       IN  \/ ~UsableAccount(db, merged.from_account_id, user)
           \/ /\ merged.type = TRANSFER
              /\ \/ merged.to_account_id = NoId
                 \/ ~UsableAccount(db, merged.to_account_id, user)
                 \/ merged.from_account_id = merged.to_account_id
    \/ d.category_id # NoId /\ ~UsableCategory(db, d.category_id, user)
    \/ d.sub_category_id # NoId /\ ~UsableSubCategory(db, d.sub_category_id, user)
    \/ /\ d.category_id # NoId
       /\ UsableSubCategory(db, d.sub_category_id, user)
       /\ db.sub_categories[d.sub_category_id].category_id # d.category_id

AddMustBeRejected(db, user, d) ==
    \/ ~UsableAccount(db, d.from_account_id, user)
    \/ d.to_account_id # NoId /\ ~UsableAccount(db, d.to_account_id, user)
    \/ d.type = TRANSFER /\ d.to_account_id = NoId
    \/ d.from_account_id = d.to_account_id
    \/ d.type = TRANSFER /\ (d.category_id # NoId \/ d.sub_category_id # NoId)
    \/ d.type \in {INCOME, EXPENSE} /\ d.to_account_id # NoId
    \/ d.category_id # NoId /\ ~UsableCategory(db, d.category_id, user)
    \/ d.sub_category_id # NoId /\ ~UsableSubCategory(db, d.sub_category_id, user)
    \/ /\ d.category_id # NoId
       /\ UsableSubCategory(db, d.sub_category_id, user)
       /\ db.sub_categories[d.sub_category_id].category_id # d.category_id

(* C9: an Add request that names a from- or to-account that is missing,    *)
(* inactive or not the caller's, a transfer without to-account or with     *)
(* from = to or carrying a category or sub-category, an income or expense  *)
(* carrying a to-account, a category or sub-category that is missing,      *)
(* inactive or not the caller's, or a sub-category outside the supplied    *)
(* category is rejected, and the store is left as it was.                  *)
C9_RejectedAddChangesNothing ==
    \A u \in Callers, d \in AddRequests :
        LET result == add_transaction(DB, u, d)
        IN  (AddMustBeRejected(DB, u, d) \/ result.status # 200) =>
                /\ result.status # 200
                /\ get_db(DB, result) = DB

(* the ledger holds rows of the caller, and a transfer between one account *)
(* and an income carrying a to-account are both turned down                *)
C9_Witness ==
    /\ \E t \in Ids(transactions) :
          transactions[t].user_id = 1 /\ transactions[t].is_active
    /\ \E d \in AddRequests :
          /\ d.type = TRANSFER /\ d.from_account_id = 1 /\ d.to_account_id = 1
          /\ add_transaction(DB, 1, d).status = 400
    /\ \E d \in AddRequests :
          /\ d.type = INCOME /\ d.from_account_id = 1 /\ d.to_account_id = 2
          /\ add_transaction(DB, 1, d).status = 400

(* C10: an import is all or nothing: when any row of the file fails        *)
(* validation, no account, category, sub-category or transaction of the    *)
(* file is stored and no balance changes, whatever valid rows come before  *)
(* or after it, and the reported imported count is 0.                      *)
C10_ImportAllOrNothing ==
    \A u \in Callers, file \in ImportFiles :
        LET result == import_transactions(DB, u, file)
        IN  (\E i \in DOMAIN file : file[i] \in BadRows) =>
                /\ get_db(DB, result) = DB
                /\ result.importedCount = 0
                /\ ~result.success

(* rows have been imported before, and a file whose first row is valid and *)
(* would create an account is turned down for its second row               *)
C10_Witness ==
    /\ \E t \in Ids(transactions) :
          transactions[t].user_id = 1 /\ transactions[t].is_active
    /\ \E file \in ImportFiles :
          /\ Len(file) = 2
          /\ file[1] \in GoodRows /\ file[1].account = "Cash"
          /\ file[2] \in BadRows
          /\ import_transactions(DB, 1, file).validationErrors # <<>>
          /\ ImportLoop(ImportStart(DB), file, 0, 1).imported_count = 1
          /\ get_db(DB, import_transactions(DB, 1, file)) = DB

(* rows of another user *)
ForeignAccount(db, id, user) ==
    id \in Ids(db.accounts) /\ db.accounts[id].user_id # user

ForeignCategory(db, id, user) ==
    id \in Ids(db.categories) /\ db.categories[id].user_id # user

ForeignSubCategory(db, id, user) ==
    id \in Ids(db.sub_categories) /\ db.sub_categories[id].user_id # user

ForeignTransaction(db, id, user) ==
    id \in Ids(db.transactions) /\ db.transactions[id].user_id # user

NamesForeignRow(db, user, d) ==
    \/ ForeignAccount(db, d.from_account_id, user)
    \/ ForeignAccount(db, d.to_account_id, user)
    \/ ForeignCategory(db, d.category_id, user)
    \/ ForeignSubCategory(db, d.sub_category_id, user)

(* C11: an operation invoked by user U never modifies a row of another     *)
(* user V, and a request of U that names a row of V by id (target          *)
(* transaction, from-account, to-account, category or sub-category) fails  *)
(* as not found and leaves the store as it was.  Stated here in the weaker *)
(* form "does not succeed and leaves the store as it was", which the claim *)
(* implies.  edit_transaction breaks it: it never looks up the to-account  *)
(* of a row that is not a transfer, so the id of V's account is stored.    *)
C11_ForeignReferenceRejected ==
    /\ \A u \in Callers, d \in AddRequests :
          NamesForeignRow(DB, u, d) =>
              /\ add_transaction(DB, u, d).status # 200
              /\ AfterAdd(DB, u, d) = DB
    /\ \A u \in Callers, id \in 1..MaxTransactions :
          ForeignTransaction(DB, id, u) =>
              /\ delete_transaction(DB, u, id).status = 404
              /\ AfterDelete(DB, u, id) = DB
    /\ \A u \in Callers, id \in 1..MaxTransactions, d \in EditRequests :
          (ForeignTransaction(DB, id, u) \/ NamesForeignRow(DB, u, d)) =>
              /\ edit_transaction(DB, u, id, d).status # 200
              /\ AfterEdit(DB, u, id, d) = DB

(* C12: every ACTIVE transaction, however it was created, has              *)
(* to_account_id set if and only if its type is transfer, and a transfer   *)
(* has no category_id, no sub_category_id and to_account_id different from *)
(* from_account_id.  edit_transaction breaks it: it repeats neither Add's  *)
(* test that an income or expense has no to-account nor Add's test that a  *)
(* transfer has no category.                                               *)
C12_ActiveRowsWellFormed ==
    \A t \in Ids(transactions) :
        transactions[t].is_active =>
            /\ (transactions[t].to_account_id # NoId) <=> (transactions[t].type = TRANSFER)
            /\ transactions[t].type = TRANSFER =>
                  /\ transactions[t].category_id = NoId
                  /\ transactions[t].sub_category_id = NoId
                  /\ transactions[t].to_account_id # transactions[t].from_account_id

(* the ACTIVE transactions that reference an account *)
ActiveReferences(db, account) ==
    {t \in Ids(db.transactions) :
        /\ db.transactions[t].is_active
        /\ \/ db.transactions[t].from_account_id = account
           \/ db.transactions[t].to_account_id = account}

SelfTransferRow(row) ==
    /\ Lower(row.entry_type) = "transfer"
    /\ Lower(row.to_account) # "nan"
    /\ Lower(row.to_account) = Lower(row.account)

C16_ImportRejectsSelfTransfer ==
    \A u \in Callers, file \in ImportFiles :
        LET result == import_transactions(DB, u, file)
            after == get_db(DB, result)
        IN  (\E i \in DOMAIN file : SelfTransferRow(file[i])) =>
                /\ result.validationErrors # <<>>
                /\ \A t \in Ids(after.transactions) \ Ids(transactions) :
                      after.transactions[t].from_account_id
                          # after.transactions[t].to_account_id

(* C17: from wallet = 0 and bank = 0, Add expense 50 on wallet gives       *)
(* wallet = -50; Add transfer 30 from wallet to bank gives wallet = -80    *)
(* and bank = 30; Edit of the expense to amount 20 gives wallet = -50 and  *)
(* bank = 30; Delete of the transfer gives wallet = -20 and bank = 0.      *)
(* The code stops following at the Edit: wallet stays -80, and after the   *)
(* Delete it is still -80 with bank = 30.                                  *)
ScenarioExpense ==
    [amount |-> 50, type |-> EXPENSE, date |-> 1, notes |-> "",
     category_id |-> 1, sub_category_id |-> 1,
     from_account_id |-> 1, to_account_id |-> NoId]

ScenarioTransfer ==
    [amount |-> 30, type |-> TRANSFER, date |-> 1, notes |-> "",
     category_id |-> NoId, sub_category_id |-> NoId,
     from_account_id |-> 1, to_account_id |-> 2]

ScenarioEdit ==
    [amount |-> 20, type |-> NoValue, date |-> NoDate, notes |-> NoValue,
     category_id |-> NoId, sub_category_id |-> NoId,
     from_account_id |-> NoId, to_account_id |-> NoId]

C17_Scenario ==
    LET s1 == AfterAdd(DB, 1, ScenarioExpense)
        expense == Len(s1.transactions)
        s2 == AfterAdd(s1, 1, ScenarioTransfer)
        transfer == Len(s2.transactions)
        s3 == AfterEdit(s2, 1, expense, ScenarioEdit)
        s4 == AfterDelete(s3, 1, transfer)
    IN  (/\ accounts[1].name = "wallet" /\ accounts[1].balance = 0
         /\ accounts[2].name = "bank" /\ accounts[2].balance = 0) =>
            /\ Balance(s1, 1) = -50
            /\ Balance(s2, 1) = -80 /\ Balance(s2, 2) = 30
            /\ Balance(s3, 1) = -50 /\ Balance(s3, 2) = 30
            /\ Balance(s4, 1) = -20 /\ Balance(s4, 2) = 0

(* C14: when two requests that each change the balance of the same        *)
(* account run concurrently, each reading the balance, computing, writing  *)
(* and committing, the committed balances are those of running the two     *)
(* requests one after the other in some order.  Nothing serializes them:   *)
(* the second commit writes the balance it computed from its own read.     *)
SerialBalances(first, second) ==
    LET one == get_db(DB, Handle(DB, first))
    IN  Balances(get_db(one, Handle(one, second)))

C14_NoLostUpdate ==
    \A s, t \in Sessions :
        (/\ s # t
         /\ sessions[s].open /\ sessions[t].open
         /\ sessions[s].snapshot = DB /\ sessions[t].snapshot = DB) =>
            Balances(commit(commit(DB, sessions[s]), sessions[t]))
                \in {SerialBalances(sessions[s].request, sessions[t].request),
                     SerialBalances(sessions[t].request, sessions[s].request)}

(* C15: no committed state shows a partially applied Add, Edit or Delete:  *)
(* every step of the system either leaves the committed tables as they     *)
(* were (a handler still running, a handler that raised, a commit that     *)
(* failed) or is the commit of one request, and then the rows it inserted, *)
(* the row it retired and every balance it changed are committed together. *)
AllCommitted(s) ==
    LET snapshot == sessions[s].snapshot
        pending == sessions[s].pending
        inserted == Len(pending.transactions) - Len(snapshot.transactions)
    IN  /\ Len(transactions') = Len(transactions) + inserted
        /\ \A k \in 1..inserted :
              transactions'[Len(transactions) + k]
                  = pending.transactions[Len(snapshot.transactions) + k]
        /\ \A i \in Ids(snapshot.transactions) :
              pending.transactions[i].is_active # snapshot.transactions[i].is_active
                  => transactions'[i].is_active = pending.transactions[i].is_active
        /\ \A i \in Ids(snapshot.accounts) :
              pending.accounts[i].balance # snapshot.accounts[i].balance
                  => accounts'[i].balance = pending.accounts[i].balance

C18_NoActiveReferenceToInactive ==
    \A t \in Ids(transactions) :
        transactions[t].is_active =>
            /\ transactions[t].category_id \in Ids(categories) =>
                  categories[transactions[t].category_id].is_active
            /\ transactions[t].sub_category_id \in Ids(sub_categories) =>
                  sub_categories[transactions[t].sub_category_id].is_active

(* C19: a successful deleteCategory sets the active flag to false on the   *)
(* category and on every ACTIVE sub-category that belongs to it, and       *)
(* changes no other category, no sub-category of another category, no      *)
(* account and no transaction.                                             *)
C19_DeleteCategoryFrame ==
    \A u \in Callers, id \in 1..MaxCategories :
        LET result == delete_category(DB, u, id)
            after == get_db(DB, result)
        IN  result.status = 200 =>
                /\ ~after.categories[id].is_active
                /\ after.categories[id] = [categories[id] EXCEPT !.is_active = FALSE]
                /\ Len(after.categories) = Len(categories)
                /\ \A c \in Ids(categories) \ {id} : after.categories[c] = categories[c]
                /\ Len(after.sub_categories) = Len(sub_categories)
                /\ \A i \in Ids(sub_categories) :
                      after.sub_categories[i] =
                          IF sub_categories[i].category_id = id
                          THEN [sub_categories[i] EXCEPT !.is_active = FALSE]
                          ELSE sub_categories[i]
                /\ after.accounts = accounts
                /\ after.transactions = transactions

(* the category rent has been deleted with its sub-category lease, while   *)
(* food and its sub-category meal, which a transaction uses, are active    *)
C19_Witness ==
    /\ ~categories[2].is_active /\ ~sub_categories[2].is_active
    /\ categories[1].is_active /\ sub_categories[1].is_active
    /\ \E t \in Ids(transactions) :
          /\ transactions[t].is_active
          /\ transactions[t].category_id = 1
          /\ transactions[t].sub_category_id = 1
    /\ delete_category(DB, 1, 1).status = 400
    /\ delete_category(DB, 1, 2).status = 404

(* the active rows of a table that belong to a user *)
ActiveOf(table, user) ==
    {i \in Ids(table) : table[i].is_active /\ table[i].user_id = user}

UniqueNames(db) ==
    \A user \in Users :
        /\ \A i, j \in ActiveOf(db.accounts, user) :
              Lower(db.accounts[i].name) = Lower(db.accounts[j].name) => i = j
        /\ \A i, j \in ActiveOf(db.categories, user) :
              Lower(db.categories[i].name) = Lower(db.categories[j].name) => i = j
        /\ \A i, j \in ActiveOf(db.sub_categories, user) :
              /\ Lower(db.sub_categories[i].name) = Lower(db.sub_categories[j].name)
              /\ db.sub_categories[i].category_id = db.sub_categories[j].category_id
              => i = j

----------------------------------------------------------------------------
(* The queries of the list: each filter absent or given, the type in the   *)
(* spellings the handler normalises.                                       *)
ListQueries ==
    [start_date : {NoDate, 2}, end_date : {NoDate, 2},
     transaction_type : {NoValue, "Income", "transfer"},
     category_id : {NoId, 1}, sub_category_id : {NoId, 1},
     from_account_id : {NoId, 1},
     min_amount : {NoAmount, 2}, max_amount : {NoAmount, 1}]

Pages == 1..3

Sizes == {NoSize, 1, 2}

(* the row passes every filter the query supplies *)
MatchesQuery(row, q) ==
    /\ q.start_date # NoDate => q.start_date <= row.date
    /\ q.end_date # NoDate => row.date <= q.end_date
    /\ q.transaction_type # NoValue => EnumValue(row.type) = Lower(q.transaction_type)
    /\ q.category_id # NoId => row.category_id = q.category_id
    /\ q.sub_category_id # NoId => row.sub_category_id = q.sub_category_id
    /\ q.from_account_id # NoId => row.from_account_id = q.from_account_id
    /\ q.min_amount # NoAmount => q.min_amount <= row.amount
    /\ q.max_amount # NoAmount => row.amount <= q.max_amount

Listed(user, q) ==
    {t \in Ids(transactions) :
        /\ transactions[t].is_active
        /\ transactions[t].user_id = user
        /\ MatchesQuery(transactions[t], q)}

NewestFirst(o) ==
    \A k \in 1..(Len(o) - 1) :
        transactions[o[k]].date >= transactions[o[k + 1]].date

(* answer is the positions (page-1)*size+1 .. page*size, counted from 1,   *)
(* of a newest-first order of the rows                                     *)
IsPageOf(answer, rows, page, size) ==
    \E o \in [1..Cardinality(rows) -> rows] :
        /\ {o[k] : k \in DOMAIN o} = rows
        /\ NewestFirst(o)
        /\ Len(answer) = Cardinality({i \in DOMAIN o :
                                         (page - 1) * size < i /\ i <= page * size})
        /\ \A k \in DOMAIN answer : answer[k] = o[(page - 1) * size + k]

----------------------------------------------------------------------------
(* a row of the file that passes every check of the specification *)
ValidRow(row) == row \in GoodRows /\ ~SelfTransferRow(row)

(* the Add request that says what the row says, its names resolved in db *)
RowAsAdd(db, row, user) ==
    LET transfer == Lower(row.entry_type) = "transfer"
        category == IF transfer THEN NoId
                    ELSE CHOOSE c \in ActiveCategoriesNamed(db, Lower(row.category), user) : TRUE
    IN  [amount |-> row.amount, type |-> TypeMapping(Lower(row.entry_type)),
         date |-> row.date, notes |-> row.notes,
         category_id |-> category,
         sub_category_id |->
             IF transfer THEN NoId
             ELSE CHOOSE x \in ActiveSubCategoriesNamed(db, Lower(row.sub_category),
                                                         category, user) : TRUE,
         from_account_id |->
             CHOOSE a \in ActiveAccountsNamed(db, Lower(row.account), user) : TRUE,
         to_account_id |->
             IF transfer
             THEN CHOOSE a \in ActiveAccountsNamed(db, Lower(row.to_account), user) : TRUE
             ELSE NoId]

(* the database after the import, without the transactions of the import: *)
(* the old balances and ledger, the created accounts at balance 0          *)
WithoutImported(before, after) ==
    [after EXCEPT
        !.transactions = before.transactions,
        !.accounts = [i \in DOMAIN @ |->
                        IF i \in Ids(before.accounts) THEN before.accounts[i]
                        ELSE [@[i] EXCEPT !.balance = 0]]]

(* C22: an import of a file whose rows are all valid leaves every account  *)
(* balance as the Add requests of its rows, one after the other, leave it, *)
(* the accounts the import creates starting at 0.                          *)
C22_ImportAsAdds ==
    \A file \in ImportFiles :
        (\A i \in DOMAIN file : ValidRow(file[i])) =>
            LET result == import_transactions(DB, 1, file)
                after == get_db(DB, result)
                requests == [i \in DOMAIN file |-> RowAsAdd(after, file[i], 1)]
                added == AddedInTurn(WithoutImported(DB, after), requests, Len(file))
            IN  /\ result.success
                /\ Len(after.transactions) = Len(transactions) + Len(file)
                /\ Len(added.transactions) = Len(transactions) + Len(file)
                /\ Balances(after) = Balances(added)

(* an import of a transfer from wallet to a new account cash and of an     *)
(* income on wallet has been committed                                     *)
C22_Witness ==
    /\ Len(accounts) = 4 /\ accounts[4].name = "cash"
    /\ Len(transactions) = 3
    /\ transactions[2].is_active /\ transactions[3].is_active
    /\ transactions[2].type = TRANSFER /\ transactions[2].to_account_id = 4
    /\ transactions[3].type = INCOME /\ transactions[3].from_account_id = 1
    /\ accounts[1].balance = 0 /\ accounts[4].balance = 1

----------------------------------------------------------------------------
(* C23: within one Edit request every validation of the merged fields is   *)
(* done before the first mutation: when the handler raises, its session    *)
(* holds no changed balance and the old transaction is still active.       *)
C23_ValidateBeforeMutate ==
    \A u \in Callers, id \in 1..MaxTransactions, d \in TransactionUpdate :
        LET result == edit_transaction(DB, u, id, d)
        IN  result.status # 200 =>
                /\ Balances(result.db) = Balances(DB)
                /\ \A t \in Ids(transactions) :
                      result.db.transactions[t].is_active = transactions[t].is_active

----------------------------------------------------------------------------
(* every active transaction with a category and a sub-category has a       *)
(* sub-category of that category                                           *)
Categorised(db) ==
    \A t \in Ids(db.transactions) :
        /\ db.transactions[t].is_active
        /\ db.transactions[t].category_id # NoId
        /\ db.transactions[t].sub_category_id # NoId
        => db.sub_categories[db.transactions[t].sub_category_id].category_id
               = db.transactions[t].category_id

(* edits that supply one of category_id and sub_category_id *)
CarryOverEdits ==
    {[NoData EXCEPT !.category_id = c] : c \in 1..2}
    \cup {[NoData EXCEPT !.sub_category_id = x] : x \in 1..2}

(* C24: every active transaction that has a category_id and a              *)
(* sub_category_id references a sub-category of that category, also after  *)
(* an Edit that supplies one of the two and carries the other over.        *)
C24_SubCategoryOfCategory ==
    /\ Categorised(DB)
    /\ \A u \in Callers, id \in 1..MaxTransactions, d \in CarryOverEdits :
          Categorised(AfterEdit(DB, u, id, d))

----------------------------------------------------------------------------
(* after holds the balances of before with the effect of row taken back *)
Reversed(before, after, row) ==
    \A a \in Ids(before.accounts) :
        Balance(after, a) = Balance(before, a) - SignedEffect(row, a)

(* C25: whenever Delete or Edit of an active transaction succeeds, the old *)
(* transaction's effect has been reversed on every account it references:  *)
(* the from-account by the negated from-delta and, for a transfer, the     *)
(* to-account by the amount.  Delete commits the reversal alone; Edit runs  *)
(* the same reversal step before it retires the row.                       *)
C25_RetiredMeansReversed ==
    \A u \in Callers, id \in Ids(transactions) :
        /\ delete_transaction(DB, u, id).status = 200 =>
               Reversed(DB, AfterDelete(DB, u, id), transactions[id])
        /\ \A d \in TransactionUpdate :
               edit_transaction(DB, u, id, d).status = 200 =>
                   Reversed(DB, reverse_effect(DB, u, transactions[id]), transactions[id])

----------------------------------------------------------------------------
(* Delete and every Edit of transaction id answer 404 in db and leave the  *)
(* session as they found it                                                *)
NotFoundUnchanged(db, u, id, edits) ==
    /\ delete_transaction(db, u, id) = Result(db, 404)
    /\ \A d \in edits : edit_transaction(db, u, id, d) = Result(db, 404)

(* C26: Delete or Edit of a transaction that is already retired fails as   *)
(* not found and changes no row and no balance: a retired row of the       *)
(* caller, the id just deleted (so Delete;Delete leaves what Delete        *)
(* leaves), and the old id after an Edit replaced it.                      *)
C26_RetiredIsNotFound ==
    \A u \in Callers, id \in Ids(transactions) :
        /\ (transactions[id].user_id = u /\ ~transactions[id].is_active) =>
               NotFoundUnchanged(DB, u, id, TransactionUpdate)
        /\ delete_transaction(DB, u, id).status = 200 =>
               /\ NotFoundUnchanged(AfterDelete(DB, u, id), u, id, {NoData})
               /\ AfterDelete(AfterDelete(DB, u, id), u, id) = AfterDelete(DB, u, id)
        /\ \A d \in TransactionUpdate :
               edit_transaction(DB, u, id, d).status = 200 =>
                   NotFoundUnchanged(AfterEdit(DB, u, id, d), u, id, {d, NoData})

(* an Edit has replaced transaction 2 by transaction 3: the old id is not  *)
(* found by Delete or Edit while the new one is                            *)
C26_Witness ==
    /\ Len(transactions) = 3
    /\ transactions[2].user_id = 1 /\ ~transactions[2].is_active
    /\ transactions[3].user_id = 1 /\ transactions[3].is_active
    /\ transactions[3].from_account_id = transactions[2].from_account_id
    /\ transactions[3].amount # transactions[2].amount
    /\ delete_transaction(DB, 1, 2).status = 404
    /\ edit_transaction(DB, 1, 2, NoData).status = 404
    /\ delete_transaction(DB, 1, 3).status = 200

----------------------------------------------------------------------------
(* the names a file gives: accounts (as Account or To Account),            *)
(* categories, and sub-categories with the category they are under         *)
IsTransferRow(row) == Lower(row.entry_type) = "transfer"

AccountNamesIn(file) ==
    {Lower(file[i].account) : i \in DOMAIN file}
    \cup {Lower(file[i].to_account) : i \in {k \in DOMAIN file : IsTransferRow(file[k])}}

CategoryNamesIn(file) ==
    {Lower(file[i].category) : i \in {k \in DOMAIN file : ~IsTransferRow(file[k])}}

SubCategoryNamesIn(file) ==
    {<<Lower(file[i].category), Lower(file[i].sub_category)>> :
        i \in {k \in DOMAIN file : ~IsTransferRow(file[k])}}

(* the active sub-categories of the user with the name, under an active    *)
(* category of the user with the category's name                           *)
ActiveSubCategoriesUnder(db, pair, user) ==
    UNION {ActiveSubCategoriesNamed(db, pair[2], c, user) :
              c \in ActiveCategoriesNamed(db, pair[1], user)}

(* the rows of a table that were there before are what they were *)
NamedRowsKept(before, after) ==
    /\ \A i \in Ids(before.accounts) :
          [after.accounts[i] EXCEPT !.balance = 0] = [before.accounts[i] EXCEPT !.balance = 0]
    /\ \A i \in Ids(before.categories) : after.categories[i] = before.categories[i]
    /\ \A i \in Ids(before.sub_categories) :
          after.sub_categories[i] = before.sub_categories[i]

(* C27: on a successful import every account, category and (category,      *)
(* sub-category) name of the file that matches an active row of the user   *)
(* by lowercased name is reused, every name that matches none is created   *)
(* exactly once however many rows name it, and the counts returned are the *)
(* number of rows of the file and the numbers of accounts, categories and  *)
(* sub-categories created.                                                 *)
C27_ImportReusesAndCounts ==
    \A file \in ImportFiles :
        LET result == import_transactions(DB, 1, file)
            after == result.db
            new_accounts == {n \in AccountNamesIn(file) : ActiveAccountsNamed(DB, n, 1) = {}}
            new_categories ==
                {n \in CategoryNamesIn(file) : ActiveCategoriesNamed(DB, n, 1) = {}}
            new_sub_categories ==
                {p \in SubCategoryNamesIn(file) : ActiveSubCategoriesUnder(DB, p, 1) = {}}
        IN  result.success =>
              /\ NamedRowsKept(DB, after)
              /\ \A n \in AccountNamesIn(file) :
                    /\ Cardinality(ActiveAccountsNamed(after, n, 1)) = 1
                    /\ n \notin new_accounts =>
                          ActiveAccountsNamed(after, n, 1) = ActiveAccountsNamed(DB, n, 1)
              /\ \A n \in CategoryNamesIn(file) :
                    /\ Cardinality(ActiveCategoriesNamed(after, n, 1)) = 1
                    /\ n \notin new_categories =>
                          ActiveCategoriesNamed(after, n, 1) = ActiveCategoriesNamed(DB, n, 1)
              /\ \A p \in SubCategoryNamesIn(file) :
                    /\ Cardinality(ActiveSubCategoriesUnder(after, p, 1)) = 1
                    /\ p \notin new_sub_categories =>
                          ActiveSubCategoriesUnder(after, p, 1)
                              = ActiveSubCategoriesUnder(DB, p, 1)
              /\ Len(after.accounts) = Len(accounts) + Cardinality(new_accounts)
              /\ Len(after.categories) = Len(categories) + Cardinality(new_categories)
              /\ Len(after.sub_categories)
                     = Len(sub_categories) + Cardinality(new_sub_categories)
              /\ Len(after.transactions) = Len(transactions) + Len(file)
              /\ \A i \in DOMAIN file :
                    LET row == after.transactions[Len(transactions) + i]
                    IN  /\ row.from_account_id
                               \in ActiveAccountsNamed(after, Lower(file[i].account), 1)
                        /\ IsTransferRow(file[i]) =>
                               row.to_account_id
                                   \in ActiveAccountsNamed(after, Lower(file[i].to_account), 1)
                        /\ ~IsTransferRow(file[i]) =>
                               /\ row.category_id
                                      \in ActiveCategoriesNamed(after, Lower(file[i].category), 1)
                               /\ row.sub_category_id
                                      \in ActiveSubCategoriesNamed(after,
                                              Lower(file[i].sub_category), row.category_id, 1)
              /\ result.importedCount = Len(file)
              /\ result.createdAccounts = Cardinality(new_accounts)
              /\ result.createdCategories = Cardinality(new_categories)
              /\ result.createdSubcategories = Cardinality(new_sub_categories)

(* an import has created the account cash once for the two rows that name  *)
(* it and a category fun beside the retired one, and an import of two rows *)
(* on the wallet would create nothing                                      *)
C27_Witness ==
    /\ Len(accounts) = 4 /\ accounts[4].name = "cash"
    /\ Len(transactions) = 3
    /\ transactions[2].from_account_id = 4 /\ transactions[2].category_id = 5
    /\ transactions[3].type = TRANSFER /\ transactions[3].to_account_id = 4
    /\ Len(categories) = 5 /\ categories[5].name = "fun" /\ ~categories[4].is_active
    /\ \E file \in ImportFiles :
          LET result == import_transactions(DB, 1, file)
          IN  /\ Len(file) = 2 /\ result.success
              /\ result.importedCount = 2 /\ result.createdAccounts = 0
              /\ result.createdCategories = 0 /\ result.createdSubcategories = 0

----------------------------------------------------------------------------
(* routers/transaction.py lines 413-417 (and 278-282, 366-370): the chain  *)
(* if str(type) == "income" / elif "expense" / elif "transfer"; the branch *)
(* it takes for a type value, or none                                      *)
NoBranch == "none"

type_test(type) ==
    IF PyStr(type) = "income" THEN "income"
    ELSE IF PyStr(type) = "expense" THEN "expense"
    ELSE IF PyStr(type) = "transfer" THEN "transfer"
    ELSE NoBranch

(* C28: for every active transaction loaded from the store the type test   *)
(* of Edit and Delete selects the branch of the transaction's type, and so *)
(* does the test on the row an Edit builds; no branch is never the outcome. *)
C28_TypeTestSelectsBranch ==
    /\ \A id \in Ids(transactions) :
          transactions[id].is_active =>
              type_test(transactions[id].type) = EnumValue(transactions[id].type)
    /\ \A u \in Callers, id \in Ids(transactions), d \in TransactionUpdate :
          LET result == edit_transaction(DB, u, id, d)
              new == result.db.transactions[Len(result.db.transactions)]
          IN  result.status = 200 => type_test(new.type) = EnumValue(new.type)

----------------------------------------------------------------------------
(* the active transactions of a user *)
ActiveTransactionsOf(db, u) ==
    {i \in Ids(db.transactions) :
        db.transactions[i].is_active /\ db.transactions[i].user_id = u}

NoRowRemoved(after) == Len(after.transactions) >= Len(transactions)

(* the rows of the ledger other than id are in after what they are now *)
OtherRowsSame(after, id) ==
    \A i \in Ids(transactions) \ {id} : after.transactions[i] = transactions[i]

(* row id was active and is retired in after, its other fields kept *)
RetiredIn(after, id) ==
    /\ transactions[id].is_active
    /\ after.transactions[id] = [transactions[id] EXCEPT !.is_active = FALSE]

(* after has one row more than the ledger, an active row of user u *)
OneActiveRowInserted(after, u) ==
    /\ Len(after.transactions) = Len(transactions) + 1
    /\ after.transactions[Len(after.transactions)].is_active
    /\ after.transactions[Len(after.transactions)].user_id = u

(* C29: the ledger only grows: no request of any handler removes a         *)
(* transaction row; a successful Add inserts exactly one active row, a     *)
(* successful Delete retires exactly one active row and inserts none, a    *)
(* successful Edit retires exactly one row and inserts exactly one active  *)
(* row, so that the user has as many active transactions after an Edit as  *)
(* before it.                                                              *)
C29_LedgerOnlyGrows ==
    /\ AfterEveryRequest(NoRowRemoved)
    /\ \A u \in Callers, d \in TransactionCreate :
          add_transaction(DB, u, d).status = 200 =>
              /\ OneActiveRowInserted(AfterAdd(DB, u, d), u)
              /\ OtherRowsSame(AfterAdd(DB, u, d), NoId)
    /\ \A u \in Callers, id \in 1..MaxTransactions :
          delete_transaction(DB, u, id).status = 200 =>
              /\ Len(AfterDelete(DB, u, id).transactions) = Len(transactions)
              /\ RetiredIn(AfterDelete(DB, u, id), id)
              /\ OtherRowsSame(AfterDelete(DB, u, id), id)
    /\ \A u \in Callers, id \in 1..MaxTransactions, d \in TransactionUpdate :
          edit_transaction(DB, u, id, d).status = 200 =>
              LET after == AfterEdit(DB, u, id, d)
              IN  /\ OneActiveRowInserted(after, u)
                  /\ RetiredIn(after, id)
                  /\ OtherRowsSame(after, id)
                  /\ Cardinality(ActiveTransactionsOf(after, u))
                         = Cardinality(ActiveTransactionsOf(DB, u))

(* the ledger is full: a row the caller added was retired by an edit and   *)
(* stands before the active row that replaced it, which a delete or one    *)
(* more edit would retire in turn                                          *)
C29_Witness ==
    /\ Len(transactions) = MaxTransactions
    /\ \E i, j \in Ids(transactions) :
          /\ i < j
          /\ transactions[i].user_id = 1 /\ ~transactions[i].is_active
          /\ ActiveTransactionsOf(DB, 1) = {j}
          /\ delete_transaction(DB, 1, j).status = 200
          /\ ActiveTransactionsOf(AfterDelete(DB, 1, j), 1) = {}
          /\ \E d \in TransactionUpdate :
                /\ edit_transaction(DB, 1, j, d).status = 200
                /\ ActiveTransactionsOf(AfterEdit(DB, 1, j, d), 1) = {j + 1}

----------------------------------------------------------------------------
(* two running requests that retire the same transaction *)
RetireSame(s, t) ==
    /\ s # t
    /\ sessions[s].open /\ sessions[t].open
    /\ sessions[s].request.kind \in {"edit", "delete"}
    /\ sessions[t].request.kind \in {"edit", "delete"}
    /\ sessions[s].request.id = sessions[t].request.id

(* C30: when two requests that retire the same active transaction (Delete  *)
(* and Delete, Delete and Edit, or Edit and Edit on one id) run            *)
(* concurrently and both commit, at most one replacement row is created    *)
(* for the transaction, and its effect is taken back from its accounts at  *)
(* most once: the balances are those one of the two requests leaves alone. *)
C30_RetiredOnce ==
    \A s, t \in Sessions :
        RetireSame(s, t) =>
            LET both == commit(commit(DB, sessions[s]), sessions[t])
            IN  /\ Len(both.transactions) <= Len(transactions) + 1
                /\ Balances(both) \in {Balances(commit(DB, sessions[s])),
                                       Balances(commit(DB, sessions[t]))}

====
